---- MODULE Spec2Model ----
(***************************************************************************)
(* A model of the client core of rag_console: the token store and the      *)
(* authentication session (lib/api.ts, context/AuthContext), the stream    *)
(* decoder of ragStream, and the chat page's session, hydration and send   *)
(* logic (pages/Chat).                                                     *)
(*                                                                         *)
(* One action is one task of the browser's event loop together with the    *)
(* promise continuations it runs to completion: a user event, the arrival  *)
(* of a response, the arrival of a response body, the arrival of a chunk   *)
(* of a streamed body.  Text is a sequence of one-character strings; the   *)
(* bytes of a streamed body are a sequence of byte names.                  *)
(***************************************************************************)
EXTENDS Integers, Sequences, FiniteSets, TLC

VARIABLES
    storageOk,   \* whether window.localStorage / sessionStorage can be used
    stored,      \* localStorage["access_token"]
    sessStore,   \* sessionStorage["chat_session_id"]
    tok,         \* AuthProvider state: token
    user,        \* AuthProvider state: user
    winFetch,    \* window.fetch: the installers whose wrappers are stacked on the original
    origOf,      \* what each installer's effect captured as orig
    auth,        \* the login / signup call in flight
    aux,         \* a call of Layout or the documents page (vectorStatus, listDocuments, ...)
    mounted,     \* whether ChatPage's mount effects have run
    sessionId,   \* ChatPage state: sessionId
    hydrating,   \* ChatPage state: hydrating
    hist,        \* the history fetch of the hydration effect
    messages,    \* ChatPage state: messages
    query,       \* ChatPage state: query (the input buffer)
    loading,     \* ChatPage state: loading (the busy flag)
    stream,      \* ChatPage state: stream
    sends        \* the send() calls made so far, in order

vars == <<storageOk, stored, sessStore, tok, user, winFetch, origOf, auth, aux,
          mounted, sessionId, hydrating, hist, messages, query, loading, stream, sends>>

authVars == <<stored, tok, user>>
chatVars == <<mounted, sessionId, hydrating, hist, messages, query, loading, stream, sends>>

----------------------------------------------------------------------------
(* Bounds of the model *)

\* the number of frames of a generated stream content
MaxFrames == 2
\* the number of send() calls that may settle in one behaviour
MaxSends == 1
\* the number of records of a generated history
MaxRecords == 2
MaxWrappers == 3

----------------------------------------------------------------------------
(* Values *)

\* JavaScript's null / undefined
Null == "<null>"

NL == "\n"
WhiteSpace == {" ", NL, "\t", "\r"}

RECURSIVE TrimStart(_)
TrimStart(s) ==
    IF s # <<>> /\ Head(s) \in WhiteSpace THEN TrimStart(Tail(s)) ELSE s

RECURSIVE TrimEnd(_)
TrimEnd(s) ==
    IF s # <<>> /\ s[Len(s)] \in WhiteSpace THEN TrimEnd(SubSeq(s, 1, Len(s) - 1)) ELSE s

\* String.prototype.trim
Trim(s) == TrimEnd(TrimStart(s))

\* String.prototype.startsWith
StartsWith(s, p) == Len(s) >= Len(p) /\ SubSeq(s, 1, Len(p)) = p

RECURSIVE Concat(_)
Concat(ss) == IF ss = <<>> THEN <<>> ELSE Head(ss) \o Concat(Tail(ss))

RECURSIVE Reverse(_)
Reverse(s) == IF s = <<>> THEN <<>> ELSE Append(Reverse(Tail(s)), Head(s))

\* JavaScript truthiness of a string-or-null value
Truthy(v) == v # Null /\ v # ""

----------------------------------------------------------------------------
(* TokenStore: getToken / setToken of lib/api.ts.  ok says whether the      *)
(* storage can be used, val is the stored value.  A result says whether the *)
(* call threw to its caller.                                                *)

\* localStorage.getItem("access_token")
StorageGetItem(ok, val) ==
    IF ok THEN [val |-> val, threw |-> FALSE] ELSE [val |-> Null, threw |-> TRUE]

\* localStorage.setItem / removeItem
StorageWrite(ok, val, new) ==
    IF ok THEN [threw |-> FALSE, store |-> new] ELSE [threw |-> TRUE, store |-> val]

\* getToken without the try / catch
getTokenUnguarded(ok, val) == StorageGetItem(ok, val)

getToken(ok, val) ==
    LET r == StorageGetItem(ok, val)
    IN  IF r.threw THEN [val |-> Null, threw |-> FALSE]
                   ELSE [val |-> r.val, threw |-> FALSE]

setToken(ok, val, token) ==
    LET r == IF Truthy(token) THEN StorageWrite(ok, val, token)
                              ELSE StorageWrite(ok, val, Null)
    IN  [threw |-> FALSE, store |-> r.store]

\* the Authorization header of a request: none, or Bearer and the token; a
\* call's record holds it while the request is on its way, up to the response
NoHeader == <<>>
Bearer(token) == <<"Bearer ", token>>

\* authHeaders that sends Bearer and whatever getToken returns
authHeadersUnguarded(ok, val) == Bearer(getToken(ok, val).val)

\* authHeaders: the Authorization header it builds from the stored token
authHeaders(ok, val) ==
    LET token == getToken(ok, val).val
    IN  IF Truthy(token) THEN Bearer(token) ELSE NoHeader

\* the headers of the login and signup requests hold Content-Type alone
loginHeaders == NoHeader

----------------------------------------------------------------------------
(* StreamDecoder: the read loop of ragStream *)

\* the bytes of a two-byte UTF-8 character, and the character
LeadByte == "0xC3"
ContByte == "0xA9"
EAcute == "U+00E9"
Replacement == "U+FFFD"

\* TextDecoder.decode(value, {stream: true}) on the bytes left over from the
\* last call followed by value: the characters, and the bytes of an incomplete
\* character kept for the next call
RECURSIVE Utf8Decode(_)
Utf8Decode(bytes) ==
    IF bytes = <<>> THEN [chars |-> <<>>, rest |-> <<>>]
    ELSE IF Head(bytes) = LeadByte
    THEN IF Len(bytes) = 1 THEN [chars |-> <<>>, rest |-> bytes]
         ELSE IF bytes[2] = ContByte
         THEN LET d == Utf8Decode(SubSeq(bytes, 3, Len(bytes)))
              IN  [chars |-> <<EAcute>> \o d.chars, rest |-> d.rest]
         ELSE LET d == Utf8Decode(Tail(bytes))
              IN  [chars |-> <<Replacement>> \o d.chars, rest |-> d.rest]
    ELSE IF Head(bytes) = ContByte
    THEN LET d == Utf8Decode(Tail(bytes))
         IN  [chars |-> <<Replacement>> \o d.chars, rest |-> d.rest]
    ELSE LET d == Utf8Decode(Tail(bytes))
         IN  [chars |-> <<Head(bytes)>> \o d.chars, rest |-> d.rest]

\* decode(value) without {stream: true}: an incomplete character at the end of
\* a chunk becomes U+FFFD and nothing is kept
DecodeChunkNoStream(pending, value) ==
    LET d == Utf8Decode(value)
    IN  [chars |-> d.chars \o (IF d.rest # <<>> THEN <<Replacement>> ELSE <<>>), rest |-> <<>>]

DecodeChunk(pending, value) == Utf8Decode(pending \o value)

\* buffer.indexOf("\n\n"), counted from 1; 0 when there is none
IndexOfBlankLine(buffer) ==
    LET hits == {i \in 1..(Len(buffer) - 1) : buffer[i] = NL /\ buffer[i + 1] = NL}
    IN  IF hits = {} THEN 0 ELSE CHOOSE i \in hits : \A j \in hits : i <= j

DataMarker == <<"d", "a", "t", "a", ":">>
DoneSentinel == <<"[", "D", "O", "N", "E", "]">>

\* what one complete frame does: nothing (an empty frame), a call of onChunk, or return
\* the frame handling without the sentinel test: every marked frame is a payload
FrameEventNoSentinel(raw) ==
    IF raw = <<>> THEN [kind |-> "skip", payload |-> <<>>]
    ELSE IF StartsWith(raw, DataMarker)
    THEN [kind |-> "chunk", payload |-> Trim(SubSeq(raw, Len(DataMarker) + 1, Len(raw)))]
    ELSE [kind |-> "chunk", payload |-> raw]

FrameEvent(raw) ==
    IF raw = <<>> THEN [kind |-> "skip", payload |-> <<>>]
    ELSE IF StartsWith(raw, DataMarker)
    THEN LET payload == Trim(SubSeq(raw, Len(DataMarker) + 1, Len(raw)))
         IN  IF payload = DoneSentinel THEN [kind |-> "return", payload |-> payload]
                                       ELSE [kind |-> "chunk", payload |-> payload]
    ELSE [kind |-> "chunk", payload |-> raw]

\* the inner while loop: the frames taken off the buffer, the payloads handed
\* to onChunk in order, and whether the sentinel made ragStream return
RECURSIVE DrainFrames(_, _)
DrainFrames(buffer, out) ==
    LET idx == IndexOfBlankLine(buffer)
    IN  IF idx = 0 THEN [buffer |-> buffer, out |-> out, returned |-> FALSE]
        ELSE LET raw  == Trim(SubSeq(buffer, 1, idx - 1))
                 rest == SubSeq(buffer, idx + 2, Len(buffer))
                 ev   == FrameEvent(raw)
             IN  IF ev.kind = "return" THEN [buffer |-> rest, out |-> out, returned |-> TRUE]
                 ELSE IF ev.kind = "chunk" THEN DrainFrames(rest, Append(out, ev.payload))
                 ELSE DrainFrames(rest, out)

\* one iteration of the outer loop on a chunk that reader.read() delivered
ReadChunk(pending, buffer, value) ==
    LET d == DecodeChunk(pending, value)
        r == DrainFrames(buffer \o d.chars, <<>>)
    IN  [pending |-> d.rest, buffer |-> r.buffer, out |-> r.out, returned |-> r.returned]


----------------------------------------------------------------------------
(* Responses and JSON calls *)

\* Response.ok
ResOk(res) == res.status >= 200 /\ res.status <= 299

\* Response.statusText
StatusText(status) ==
    IF status = 200 THEN "OK"
    ELSE IF status = 401 THEN "Unauthorized"
    ELSE "Internal Server Error"

\* a call that is not in flight, and the response it has not got yet
NoRes == [status |-> 0, body |-> [kind |-> "none"]]

\* handleJsonResponse: whether it threw, the message of the Error, the data
handleJsonResponse(res) ==
    IF res.body.kind = "malformed"
    THEN [threw |-> TRUE, message |-> "SyntaxError: Unexpected token", data |-> [kind |-> "none"]]
    ELSE IF ~ResOk(res)
    THEN LET detail == IF res.body.kind = "json" /\ Truthy(res.body.detail)
                           THEN res.body.detail
                       ELSE IF res.body.kind = "json" /\ Truthy(res.body.message)
                           THEN res.body.message
                       ELSE StatusText(res.status)
         IN  [threw |-> TRUE, message |-> detail, data |-> [kind |-> "none"]]
    ELSE [threw |-> FALSE, message |-> "", data |-> res.body]

\* The wrapper the AuthProvider effect puts on window.fetch, for a call issued
\* through the wrappers of the installers in via: what the caller gets back and
\* how many times logout() ran.
\* the wrapper without the logout() call
InterceptedNoLogout(via, res) == [res |-> res, logouts |-> 0]

\* the wrapper handing its caller a bare copy of a 401 response
InterceptedBareCopy(via, res) ==
    [res |-> IF res.status = 401 THEN [status |-> 401, body |-> [kind |-> "empty"]] ELSE res,
     logouts |-> IF res.status = 401 THEN Len(via) ELSE 0]

Intercepted(via, res) ==
    [res |-> res, logouts |-> IF res.status = 401 THEN Len(via) ELSE 0]

\* logout() of AuthProvider, as the new stored, tok and user
\* logout() without the setToken(null)
LogoutStateKeepsStored(ok, val) == [stored |-> val, tok |-> Null, user |-> Null]

LogoutState(ok, val) == [stored |-> setToken(ok, val, Null).store, tok |-> Null, user |-> Null]

\* stored, tok and user after the wrappers of a call handled res
AfterIntercept(via, res) ==
    IF Intercepted(via, res).logouts > 0 THEN LogoutState(storageOk, stored)
    ELSE [stored |-> stored, tok |-> tok, user |-> user]

\* the step's new stored, tok and user
SetAuth(st) == stored' = st.stored /\ tok' = st.tok /\ user' = st.user

----------------------------------------------------------------------------
(* AuthSession: login / signup / logout of AuthProvider, login / signup of  *)
(* lib/api.ts, and the effect that wraps window.fetch                       *)

\* the AuthProvider instances whose effect may run: the one of the application
\* and a second one
Installers == {1, 2}
AuthKinds == {"login", "signup"}

JsonErr(detail) ==
    [user |-> Null, kind |-> "json", message |-> Null, detail |-> detail, access_token |-> Null]
AuthJson(t, u) ==
    [user |-> u, kind |-> "json", message |-> Null, detail |-> Null, access_token |-> t]

\* what the authentication endpoint may answer
AuthResponses ==
    { [status |-> 200, body |-> AuthJson("tok1", "u1")],
      [status |-> 200, body |-> AuthJson(Null, Null)],
      [status |-> 200, body |-> [kind |-> "malformed"]],
      [status |-> 401, body |-> JsonErr("Invalid credentials")],
      [status |-> 500, body |-> [kind |-> "empty"]] }

IdleAuth ==
    [kind |-> "login", res |-> NoRes, via |-> <<>>, pc |-> "idle", authorization |-> NoHeader,
     result |-> FALSE]

\* login / signup of lib/api.ts from the response on: whether it threw, the
\* data it returned, and localStorage["access_token"] afterwards
\* login / signup of lib/api.ts without the setToken call
apiLoginNoStore(ok, val, res) ==
    LET h == handleJsonResponse(res)
    IN  IF h.threw THEN [threw |-> TRUE, store |-> val, data |-> h.data]
        ELSE IF h.data.kind = "json" THEN [threw |-> FALSE, store |-> val, data |-> h.data]
        ELSE [threw |-> FALSE, store |-> val, data |-> AuthJson(Null, Null)]

apiLogin(ok, val, res) ==
    LET h == handleJsonResponse(res)
    IN  IF h.threw THEN [threw |-> TRUE, store |-> val, data |-> h.data]
        ELSE IF h.data.kind = "json"
        THEN [threw |-> FALSE, store |-> setToken(ok, val, h.data.access_token).store, data |-> h.data]
        ELSE [threw |-> FALSE, store |-> setToken(ok, val, Null).store, data |-> AuthJson(Null, Null)]

\* login / signup of AuthProvider from the response on: the boolean returned
\* and the new stored, tok and user
ProviderLogin(ok, val, t, u, res) ==
    LET a == apiLogin(ok, val, res)
    IN  IF a.threw THEN [result |-> FALSE, state |-> [stored |-> a.store, tok |-> t, user |-> u]]
        ELSE IF ~Truthy(a.data.access_token) THEN [result |-> FALSE, state |-> [stored |-> a.store, tok |-> t, user |-> u]]
        ELSE [result |-> TRUE, state |-> [stored |-> a.store, tok |-> a.data.access_token, user |-> a.data.user]]

\* the user presses Logout
Logout ==
    /\ SetAuth(LogoutState(storageOk, stored))
    /\ UNCHANGED <<storageOk, sessStore, winFetch, origOf, auth, aux>>
    /\ UNCHANGED chatVars

\* the effect of AuthProvider runs for installer i
Install(i) ==
    /\ ~origOf[i].active
    /\ Len(winFetch) < MaxWrappers
    /\ origOf' = [origOf EXCEPT ![i] = [active |-> TRUE, orig |-> winFetch]]
    /\ winFetch' = <<i>> \o winFetch
    /\ UNCHANGED <<storageOk, stored, sessStore, tok, user, auth, aux>>
    /\ UNCHANGED chatVars

\* the cleanup of the effect of installer i
Uninstall(i) ==
    /\ origOf[i].active
    /\ winFetch' = origOf[i].orig
    /\ origOf' = [origOf EXCEPT ![i] = [active |-> FALSE, orig |-> <<>>]]
    /\ UNCHANGED <<storageOk, stored, sessStore, tok, user, auth, aux>>
    /\ UNCHANGED chatVars

\* the form of the authentication page is submitted
AuthSubmit(kind) ==
    /\ auth.pc \in {"idle", "done"}
    /\ auth' = [kind |-> kind, res |-> NoRes, via |-> winFetch, pc |-> "fetch",
                authorization |-> loginHeaders, result |-> FALSE]
    /\ UNCHANGED <<storageOk, stored, sessStore, tok, user, winFetch, origOf, aux>>
    /\ UNCHANGED chatVars

\* the response of the authentication endpoint arrives
AuthRespond(r) ==
    /\ auth.pc = "fetch"
    /\ SetAuth(AfterIntercept(auth.via, r))
    /\ auth' = [auth EXCEPT !.pc = "text", !.authorization = NoHeader,
                            !.res = Intercepted(auth.via, r).res]
    /\ UNCHANGED <<storageOk, sessStore, winFetch, origOf, aux>>
    /\ UNCHANGED chatVars

\* fetch rejects, or reading the body fails
AuthNetFail ==
    /\ auth.pc \in {"fetch", "text"}
    /\ auth' = [IdleAuth EXCEPT !.pc = "done", !.result = FALSE]
    /\ UNCHANGED <<storageOk, stored, sessStore, tok, user, winFetch, origOf, aux>>
    /\ UNCHANGED chatVars

\* the body arrives: handleJsonResponse, setToken, and the rest of login / signup
AuthBody ==
    /\ auth.pc = "text"
    /\ LET p == ProviderLogin(storageOk, stored, tok, user, auth.res)
       IN  /\ SetAuth(p.state)
           /\ auth' = [IdleAuth EXCEPT !.pc = "done", !.result = p.result]
    /\ UNCHANGED <<storageOk, sessStore, winFetch, origOf, aux>>
    /\ UNCHANGED chatVars

----------------------------------------------------------------------------
(* A call of Layout or of the documents page: vectorStatus, listDocuments,  *)
(* deleteDocument, uploadDocument                                           *)

AuxResponses ==
    { [status |-> 200, body |-> [kind |-> "empty"]],
      [status |-> 401, body |-> JsonErr("Not authenticated")] }

IdleCall == [res |-> NoRes, via |-> <<>>, pc |-> "idle", authorization |-> NoHeader]

AuxIssue ==
    /\ aux.pc = "idle"
    /\ aux' = [res |-> NoRes, via |-> winFetch,
               pc |-> "fetch", authorization |-> authHeaders(storageOk, stored)]
    /\ UNCHANGED <<storageOk, stored, sessStore, tok, user, winFetch, origOf, auth>>
    /\ UNCHANGED chatVars

AuxRespond(r) ==
    /\ aux.pc = "fetch"
    /\ SetAuth(AfterIntercept(aux.via, r))
    /\ aux' = [aux EXCEPT !.pc = "text", !.authorization = NoHeader,
                          !.res = Intercepted(aux.via, r).res]
    /\ UNCHANGED <<storageOk, sessStore, winFetch, origOf, auth>>
    /\ UNCHANGED chatVars

\* the body arrives (or the call fails): the call settles for its caller
AuxSettle ==
    /\ aux.pc \in {"fetch", "text"}
    /\ aux' = IdleCall
    /\ UNCHANGED <<storageOk, stored, sessStore, tok, user, winFetch, origOf, auth>>
    /\ UNCHANGED chatVars


----------------------------------------------------------------------------
(* HistoryReconciler: the loop of the hydration effect of ChatPage *)

\* message ids: crypto.randomUUID() gives the n-th fresh id; a hydrated id is
\* String(q.id) followed by ":u" or ":a"
Uuid(n) == [kind |-> "uuid", n |-> n, suffix |-> ""]
RecId(id, suffix) == [kind |-> "rec", n |-> id, suffix |-> suffix]

NoMeta == [processing_time_ms |-> Null, total_tokens |-> Null, sources |-> Null]

\* a response payload that is absent
NoResponse == [present |-> FALSE, response_text |-> <<>>, generated_at |-> Null, context_chunks |-> Null]

\* the readings of the clock: new Date().toISOString() when a hydration runs
Clock == {"now1", "now2"}

\* the messages pushed for one record by a hydration that runs at now
HydrateRecord(q, now) ==
    LET u == [id |-> RecId(q.id, ":u"), role |-> "user", text |-> q.query_text,
              createdAt |-> IF Truthy(q.created_at) THEN q.created_at ELSE now,
              meta |-> NoMeta]
        a == [id |-> RecId(q.id, ":a"), role |-> "assistant", text |-> q.response.response_text,
              createdAt |-> IF Truthy(q.response.generated_at) THEN q.response.generated_at
                            ELSE IF Truthy(q.created_at) THEN q.created_at ELSE now,
              meta |-> [processing_time_ms |-> q.processing_time_ms,
                        total_tokens |-> q.total_tokens,
                        sources |-> q.response.context_chunks]]
    IN  IF q.response.present /\ q.response.response_text # <<>> THEN <<u, a>> ELSE <<u>>

RECURSIVE HydrateAll(_, _)
HydrateAll(items, now) ==
    IF items = <<>> THEN <<>> ELSE HydrateRecord(Head(items), now) \o HydrateAll(Tail(items), now)

\* the loop of the hydration effect without the reverse()
ReconcileNewestFirst(queries, now) == HydrateAll(queries, now)

\* hydrated, from the queries of the history response (newest first)
Reconcile(queries, now) == HydrateAll(Reverse(queries), now)

----------------------------------------------------------------------------
(* ChatSessionEngine: the effects, send and clear of ChatPage *)

\* the texts the user may have in the input
Blank == <<" ">>
Question == <<"h", "i">>
Queries == {<<>>, Blank, Question}

\* a Send button that is never disabled
disableSubmitNever(q, busy) == FALSE

\* disableSubmit without the busy flag
disableSubmitBlankOnly(q, busy) == Trim(q) = <<>>

disableSubmit(q, busy) == Trim(q) = <<>> \/ busy

\* the values of a processing time: reported by the server, or measured
Elapsed == {"0", "5"}
FalsyNumber(v) == v = Null \/ v = "0"

\* the user message of send() with the trimmed input for its text
UserMsgTrimmed(n, q) ==
    [id |-> Uuid(2 * n - 1), role |-> "user", text |-> Trim(q), createdAt |-> "now", meta |-> NoMeta]

\* the two messages send() appends for the n-th accepted send
UserMsg(n, q) ==
    [id |-> Uuid(2 * n - 1), role |-> "user", text |-> q, createdAt |-> "now", meta |-> NoMeta]
AssistantMsg(n) ==
    [id |-> Uuid(2 * n), role |-> "assistant", text |-> <<>>, createdAt |-> "now", meta |-> NoMeta]

\* the callback of send() appending to every assistant message
OnChunkAllAssistants(prev, id, chunk) ==
    [i \in 1..Len(prev) |->
        IF prev[i].role = "assistant" THEN [prev[i] EXCEPT !.text = prev[i].text \o chunk]
        ELSE prev[i]]

\* the callback of send() with the chunk put in place of the text
OnChunkReplace(prev, id, chunk) ==
    [i \in 1..Len(prev) |->
        IF prev[i].id = id THEN [prev[i] EXCEPT !.text = chunk] ELSE prev[i]]

\* prev.map(msg => msg.id === id ? f(msg) : msg), for each way send() updates
\* the placeholder
OnChunk(prev, id, chunk) ==
    [i \in 1..Len(prev) |->
        IF prev[i].id = id THEN [prev[i] EXCEPT !.text = prev[i].text \o chunk] ELSE prev[i]]

RECURSIVE OnChunks(_, _, _)
OnChunks(prev, id, chunks) ==
    IF chunks = <<>> THEN prev ELSE OnChunks(OnChunk(prev, id, Head(chunks)), id, Tail(chunks))

\* the answer of the query endpoint put in the text alone
SetAnswerTextOnly(prev, id, data) ==
    [i \in 1..Len(prev) |->
        IF prev[i].id = id THEN [prev[i] EXCEPT !.text = data.response] ELSE prev[i]]

SetAnswer(prev, id, data) ==
    [i \in 1..Len(prev) |->
        IF prev[i].id = id
        THEN [prev[i] EXCEPT !.text = data.response,
                             !.meta = [processing_time_ms |-> data.processing_time_ms,
                                       total_tokens |-> data.total_tokens,
                                       sources |-> data.context_documents]]
        ELSE prev[i]]

SetElapsed(prev, id, ms) ==
    [i \in 1..Len(prev) |->
        IF prev[i].id = id
        THEN [prev[i] EXCEPT !.meta.processing_time_ms =
                 IF FalsyNumber(prev[i].meta.processing_time_ms) THEN ms
                 ELSE prev[i].meta.processing_time_ms]
        ELSE prev[i]]

ErrorMarker(message) == <<"Error: ", IF message = "" THEN "Failed to generate" ELSE message>>

\* the catch block of send() putting the marker behind the text
SetErrorAppend(prev, id, message) ==
    [i \in 1..Len(prev) |->
        IF prev[i].id = id THEN [prev[i] EXCEPT !.text = prev[i].text \o ErrorMarker(message)]
        ELSE prev[i]]

SetError(prev, id, message) ==
    [i \in 1..Len(prev) |->
        IF prev[i].id = id THEN [prev[i] EXCEPT !.text = ErrorMarker(message)] ELSE prev[i]]


\* what the query endpoint may answer; a field the body lacks is Null, a
\* response text it lacks is the empty text
QueryJson(text, pt, tokens, docs) ==
    [kind |-> "json", message |-> Null, detail |-> Null, processing_time_ms |-> pt,
     total_tokens |-> tokens, response |-> text, context_documents |-> docs]
QueryErr(detail) ==
    [kind |-> "json", message |-> Null, detail |-> detail, processing_time_ms |-> Null,
     total_tokens |-> Null, response |-> <<>>, context_documents |-> Null]

QueryResponses ==
    { [status |-> 200, body |-> QueryJson(<<"a", "n", "s">>, "7", "42", "docs")],
      [status |-> 200, body |-> QueryJson(<<"a", "n", "s">>, "0", "42", "docs")],
      [status |-> 200, body |-> QueryJson(<<>>, Null, Null, Null)],
      [status |-> 401, body |-> QueryErr("Not authenticated")],
      [status |-> 500, body |-> [kind |-> "malformed"]] }

\* a send() call that was accepted; q is userMsg.text, and the payload has
\* session_id: sessionId || undefined
NewSend(n, mode, via, q, sid) ==
    [pending |-> <<>>, buffer |-> <<>>, res |-> NoRes, via |-> via, pc |-> "fetch",
     mode |-> mode, aid |-> Uuid(2 * n),
     req |-> [query |-> q, authorization |-> authHeaders(storageOk, stored),
              session_id |-> IF Truthy(sid) THEN sid ELSE Null],
     content |-> <<>>, pos |-> 0,
     delivered |-> <<>>, outcome |-> "none"]

InFlight == {n \in 1..Len(sends) : sends[n].pc # "done"}
Settled == {n \in 1..Len(sends) : sends[n].pc = "done"}

\* the bytes of the body of send n that have not arrived yet
Remaining(n) == IF n \in 1..Len(sends) THEN Len(sends[n].content) - sends[n].pos ELSE 0

\* send() is called: by the Send button or by Enter in the input
Send ==
    /\ mounted
    /\ IF disableSubmit(query, loading)
       THEN UNCHANGED <<messages, query, loading, sends>>
       ELSE /\ Cardinality(Settled) < MaxSends
            /\ loading' = TRUE
            /\ messages' = messages \o <<UserMsg(Len(sends) + 1, query), AssistantMsg(Len(sends) + 1)>>
            /\ query' = <<>>
            /\ sends' = Append(sends, NewSend(Len(sends) + 1, IF stream THEN "stream" ELSE "json",
                                              winFetch, UserMsg(Len(sends) + 1, query).text,
                                              sessionId))
    /\ UNCHANGED <<storageOk, stored, sessStore, tok, user, winFetch, origOf, auth, aux>>
    /\ UNCHANGED <<mounted, sessionId, hydrating, hist, stream>>

\* the catch block of send() without the finally block
SettleErrorNoFinally(n, message) ==
    /\ messages' = SetError(messages, sends[n].aid, message)
    /\ UNCHANGED loading

\* the catch and finally blocks of send()
SettleError(n, message) ==
    /\ messages' = SetError(messages, sends[n].aid, message)
    /\ loading' = FALSE

\* the end of the try block and the finally block of send()
SettleOk(n, msgs, ms) ==
    /\ messages' = SetElapsed(msgs, sends[n].aid, ms)
    /\ loading' = FALSE

\* `Streaming failed: ${res.status} ${res.statusText}`
StreamFailed(status) ==
    IF status = 200 THEN "Streaming failed: 200 OK"
    ELSE IF status = 401 THEN "Streaming failed: 401 Unauthorized"
    ELSE "Streaming failed: 500 Internal Server Error"

\* the response of the streaming endpoint taken without the test of its
\* status and body
StreamRespondUnchecked(n, status, hasBody, content) ==
    /\ n \in InFlight /\ sends[n].mode = "stream" /\ sends[n].pc = "fetch"
    /\ LET r == [status |-> status, body |-> [kind |-> IF hasBody THEN "stream" ELSE "nobody"]]
       IN  /\ SetAuth(AfterIntercept(sends[n].via, r))
           /\ sends' = [sends EXCEPT ![n].pc = "stream", ![n].res = Intercepted(sends[n].via, r).res,
                                     ![n].content = content, ![n].req.authorization = NoHeader]
    /\ UNCHANGED <<storageOk, sessStore, winFetch, origOf, auth, aux>>
    /\ UNCHANGED <<mounted, sessionId, hydrating, hist, messages, query, loading, stream>>

\* the response of the streaming endpoint arrives; hasBody: res.body is not null
StreamRespond(n, status, hasBody, content) ==
    /\ n \in InFlight /\ sends[n].mode = "stream" /\ sends[n].pc = "fetch"
    /\ LET r == [status |-> status, body |-> [kind |-> IF hasBody THEN "stream" ELSE "nobody"]]
           got == Intercepted(sends[n].via, r).res
       IN  /\ SetAuth(AfterIntercept(sends[n].via, r))
           /\ IF ~ResOk(got) \/ got.body.kind # "stream"
              THEN /\ SettleError(n, StreamFailed(got.status))
                   /\ sends' = [sends EXCEPT ![n].pc = "done", ![n].res = got, ![n].outcome = "error",
                                             ![n].req.authorization = NoHeader]
              ELSE /\ sends' = [sends EXCEPT ![n].pc = "stream", ![n].res = got, ![n].content = content,
                                             ![n].req.authorization = NoHeader]
                   /\ UNCHANGED <<messages, loading>>
    /\ UNCHANGED <<storageOk, sessStore, winFetch, origOf, auth, aux>>
    /\ UNCHANGED <<mounted, sessionId, hydrating, hist, query, stream>>

\* reader.read() delivers the next k bytes of the body
StreamRead(n, k) ==
    /\ n \in InFlight /\ sends[n].pc = "stream"
    /\ k >= 1 /\ sends[n].pos + k <= Len(sends[n].content)
    /\ LET c  == sends[n]
           rc == ReadChunk(c.pending, c.buffer, SubSeq(c.content, c.pos + 1, c.pos + k))
           applied == OnChunks(messages, c.aid, rc.out)
       IN  /\ IF rc.returned
              THEN \E ms \in Elapsed : SettleOk(n, applied, ms)
              ELSE messages' = applied /\ UNCHANGED loading
           /\ sends' = [sends EXCEPT ![n].pos = c.pos + k, ![n].pending = rc.pending,
                                     ![n].buffer = rc.buffer,
                                     ![n].delivered = c.delivered \o rc.out,
                                     ![n].pc = IF rc.returned THEN "done" ELSE "stream",
                                     ![n].outcome = IF rc.returned THEN "ok" ELSE "none"]
    /\ UNCHANGED <<storageOk, stored, sessStore, tok, user, winFetch, origOf, auth, aux>>
    /\ UNCHANGED <<mounted, sessionId, hydrating, hist, query, stream>>

\* the end of the body taken for a failure
StreamEndAsError(n) ==
    /\ n \in InFlight /\ sends[n].pc = "stream"
    /\ sends[n].pos = Len(sends[n].content)
    /\ SettleError(n, "Stream ended")
    /\ sends' = [sends EXCEPT ![n].pc = "done", ![n].outcome = "error"]
    /\ UNCHANGED <<storageOk, stored, sessStore, tok, user, winFetch, origOf, auth, aux>>
    /\ UNCHANGED <<mounted, sessionId, hydrating, hist, query, stream>>

\* reader.read() reports done: the body has ended
StreamEnd(n) ==
    /\ n \in InFlight /\ sends[n].pc = "stream"
    /\ sends[n].pos = Len(sends[n].content)
    /\ \E ms \in Elapsed : SettleOk(n, messages, ms)
    /\ sends' = [sends EXCEPT ![n].pc = "done", ![n].outcome = "ok"]
    /\ UNCHANGED <<storageOk, stored, sessStore, tok, user, winFetch, origOf, auth, aux>>
    /\ UNCHANGED <<mounted, sessionId, hydrating, hist, query, stream>>

\* the response of the query endpoint arrives
QueryRespond(n, r) ==
    /\ n \in InFlight /\ sends[n].mode = "json" /\ sends[n].pc = "fetch"
    /\ SetAuth(AfterIntercept(sends[n].via, r))
    /\ sends' = [sends EXCEPT ![n].pc = "text", ![n].res = Intercepted(sends[n].via, r).res,
                              ![n].req.authorization = NoHeader]
    /\ UNCHANGED <<storageOk, sessStore, winFetch, origOf, auth, aux>>
    /\ UNCHANGED <<mounted, sessionId, hydrating, hist, messages, query, loading, stream>>

\* the body of the query response arrives
QueryBody(n) ==
    /\ n \in InFlight /\ sends[n].pc = "text"
    /\ LET h == handleJsonResponse(sends[n].res)
       IN  IF h.threw
           THEN /\ SettleError(n, h.message)
                /\ sends' = [sends EXCEPT ![n].pc = "done", ![n].outcome = "error"]
           ELSE /\ \E ms \in Elapsed :
                     SettleOk(n, SetAnswer(messages, sends[n].aid,
                                           IF h.data.kind = "json" THEN h.data
                                           ELSE QueryJson(<<>>, Null, Null, Null)), ms)
                /\ sends' = [sends EXCEPT ![n].pc = "done", ![n].outcome = "ok"]
    /\ UNCHANGED <<storageOk, stored, sessStore, tok, user, winFetch, origOf, auth, aux>>
    /\ UNCHANGED <<mounted, sessionId, hydrating, hist, query, stream>>

\* fetch rejects, or reading the body or the stream fails
SendNetFail(n) ==
    /\ n \in InFlight
    /\ SettleError(n, "Failed to fetch")
    /\ sends' = [sends EXCEPT ![n].pc = "done", ![n].outcome = "error",
                              ![n].req.authorization = NoHeader]
    /\ UNCHANGED <<storageOk, stored, sessStore, tok, user, winFetch, origOf, auth, aux>>
    /\ UNCHANGED <<mounted, sessionId, hydrating, hist, query, stream>>

\* a clear() that releases the busy flag
ClearReleasesBusy ==
    /\ mounted
    /\ messages' = <<>>
    /\ loading' = FALSE
    /\ UNCHANGED <<storageOk, stored, sessStore, tok, user, winFetch, origOf, auth, aux>>
    /\ UNCHANGED <<mounted, sessionId, hydrating, hist, query, stream, sends>>

\* clear()
Clear ==
    /\ mounted
    /\ messages' = <<>>
    /\ UNCHANGED <<storageOk, stored, sessStore, tok, user, winFetch, origOf, auth, aux>>
    /\ UNCHANGED <<mounted, sessionId, hydrating, hist, query, loading, stream, sends>>

\* the user edits the input
TypeQuery(q) ==
    /\ mounted
    /\ query' = q
    /\ UNCHANGED <<storageOk, stored, sessStore, tok, user, winFetch, origOf, auth, aux>>
    /\ UNCHANGED <<mounted, sessionId, hydrating, hist, messages, loading, stream, sends>>

\* the user ticks or unticks "Stream response"
ToggleStream ==
    /\ mounted
    /\ stream' = ~stream
    /\ UNCHANGED <<storageOk, stored, sessStore, tok, user, winFetch, origOf, auth, aux>>
    /\ UNCHANGED <<mounted, sessionId, hydrating, hist, messages, query, loading, sends>>


----------------------------------------------------------------------------
(* ChatPage: the session effect and the hydration effect *)

ResponseKinds == {"none", "text", "empty"}

\* a history record: without a response payload, with one, with one whose
\* text is empty, with one and without creation and generation times
Record(id, kind) ==
    [id |-> id, processing_time_ms |-> "9",
     total_tokens |-> "11",
     query_text |-> <<"q">>,
     created_at |-> IF kind = "undated" THEN Null ELSE "t",
     response |-> IF kind = "none" THEN NoResponse
                  ELSE [present |-> TRUE,
                        response_text |-> IF kind \in {"text", "undated"} THEN <<"r">> ELSE <<>>,
                        generated_at |-> IF kind = "undated" THEN Null ELSE "g",
                        context_chunks |-> "ctx"]]

\* the histories of at most n records, newest first
Histories(n, kinds) ==
    UNION { { [i \in 1..len |-> Record(len - i + 1, f[i])] : f \in [1..len -> kinds] } : len \in 0..n }

HistJson(queries) == [kind |-> "json", message |-> Null, detail |-> Null, queries |-> queries]

HistFailures ==
    { [status |-> 401, body |-> HistJson(<<>>)],
      [status |-> 500, body |-> [kind |-> "malformed"]] }

\* what the history endpoint may answer
HistResponses(n, kinds) ==
    { [status |-> 200, body |-> HistJson(h)] : h \in Histories(n, kinds) } \cup HistFailures

FreshSession == "sid-new"

\* the session effect that takes a fresh id whatever is stored
SessionEffectAlwaysFresh(ok, store) ==
    [store |-> IF ok THEN FreshSession ELSE store, sid |-> FreshSession]

\* the session effect of ChatPage: the id it sets and sessionStorage's
\* "chat_session_id" afterwards
SessionEffect(ok, store) ==
    IF ok
    THEN IF Truthy(store) THEN [store |-> store, sid |-> store]
                          ELSE [store |-> FreshSession, sid |-> FreshSession]
    ELSE [store |-> store, sid |-> FreshSession]

\* ChatPage is mounted: the session effect, then the hydration effect up to
\* its request
ChatMount ==
    /\ ~mounted
    /\ mounted' = TRUE
    /\ sessionId' = SessionEffect(storageOk, sessStore).sid
    /\ sessStore' = SessionEffect(storageOk, sessStore).store
    /\ hydrating' = TRUE
    /\ hist' = [res |-> NoRes, via |-> winFetch,
                pc |-> "fetch", authorization |-> authHeaders(storageOk, stored)]
    /\ UNCHANGED <<storageOk, stored, tok, user, winFetch, origOf, auth, aux>>
    /\ UNCHANGED <<messages, query, loading, stream, sends>>

\* the response of the history endpoint arrives
HistRespond(r) ==
    /\ hist.pc = "fetch"
    /\ SetAuth(AfterIntercept(hist.via, r))
    /\ hist' = [hist EXCEPT !.pc = "text", !.authorization = NoHeader,
                            !.res = Intercepted(hist.via, r).res]
    /\ UNCHANGED <<storageOk, sessStore, winFetch, origOf, auth, aux>>
    /\ UNCHANGED <<mounted, sessionId, hydrating, messages, query, loading, stream, sends>>

\* the body arrives: the rest of the hydration effect
HistBody ==
    /\ hist.pc = "text"
    /\ \E now \in Clock :
          LET h == handleJsonResponse(hist.res)
              hydrated == IF h.threw \/ h.data.kind # "json" THEN <<>>
                          ELSE Reconcile(h.data.queries, now)
          IN  messages' = IF hydrated # <<>> THEN hydrated ELSE messages
    /\ hydrating' = FALSE
    /\ hist' = [hist EXCEPT !.pc = "done"]
    /\ UNCHANGED <<storageOk, stored, sessStore, tok, user, winFetch, origOf, auth, aux>>
    /\ UNCHANGED <<mounted, sessionId, query, loading, stream, sends>>

\* a failure of the history fetch that leaves the indicator as it is
HistNetFailKeepsIndicator ==
    /\ hist.pc \in {"fetch", "text"}
    /\ hist' = [hist EXCEPT !.pc = "failed", !.authorization = NoHeader]
    /\ UNCHANGED <<storageOk, stored, sessStore, tok, user, winFetch, origOf, auth, aux>>
    /\ UNCHANGED <<mounted, sessionId, hydrating, messages, query, loading, stream, sends>>

\* fetch rejects, or reading the body fails
HistNetFail ==
    /\ hist.pc \in {"fetch", "text"}
    /\ hydrating' = FALSE
    /\ hist' = [hist EXCEPT !.pc = "failed", !.authorization = NoHeader]
    /\ UNCHANGED <<storageOk, stored, sessStore, tok, user, winFetch, origOf, auth, aux>>
    /\ UNCHANGED <<mounted, sessionId, messages, query, loading, stream, sends>>

\* ChatPage is left (another route, or a reload of the tab) while no call of
\* it is pending: its state is gone, sessionStorage stays
ChatUnmount ==
    /\ mounted
    /\ InFlight = {}
    /\ hist.pc \in {"done", "failed"}
    /\ mounted' = FALSE
    /\ sessionId' = Null
    /\ hydrating' = TRUE
    /\ hist' = IdleCall
    /\ messages' = <<>>
    /\ query' = <<>>
    /\ loading' = FALSE
    /\ stream' = TRUE
    /\ sends' = <<>>
    /\ UNCHANGED <<storageOk, stored, sessStore, tok, user, winFetch, origOf, auth, aux>>

\* the session ids of the records HistoryPage lists: q.session_id || ''
HistorySessions == {"sid-h", ""}

\* "Open in Chat" of HistoryPage on a record of session sid
OpenInChat(sid) ==
    /\ ~mounted
    /\ sessStore' = IF storageOk THEN sid ELSE sessStore
    /\ UNCHANGED <<storageOk, stored, tok, user, winFetch, origOf, auth, aux>>
    /\ UNCHANGED chatVars

----------------------------------------------------------------------------
(* The bodies the streaming endpoint may send *)

Separator == <<NL, NL>>
DataX == DataMarker \o <<" ", "x">>
DataDone == DataMarker \o <<" ">> \o DoneSentinel

\* the texts between two blank lines: a payload behind the marker, a text
\* without the marker that ends a line, the sentinel, nothing, a payload of
\* one two-byte character, the sentinel's text without the marker
FrameBodies ==
    { DataX, <<"y", NL>>, DataDone, <<>>, DataMarker \o <<LeadByte, ContByte>>, DoneSentinel }

\* the bodies of at most n frames, each followed by a blank line
RECURSIVE Framed(_)
Framed(n) ==
    IF n = 0 THEN {<<>>}
    ELSE LET shorter == Framed(n - 1)
         IN  shorter \cup {c \o f \o Separator : c \in shorter, f \in FrameBodies}

ExampleHello ==
    DataMarker \o <<" ", "H", "e", "l", "l", "o">> \o Separator \o DataDone \o Separator
ExampleFooBar ==
    DataMarker \o <<" ", "f", "o", "o">> \o Separator
    \o DataMarker \o <<" ", "b", "a", "r">> \o Separator \o DataDone \o Separator

\* bodies of at most MaxFrames frames, the last of which may lack its blank line
StreamContents ==
    Framed(MaxFrames) \cup {c \o f : c \in Framed(MaxFrames - 1), f \in FrameBodies}
    \cup {ExampleHello, ExampleFooBar}

----------------------------------------------------------------------------
(* Specifications *)

Init ==
    /\ storageOk \in BOOLEAN
    /\ stored \in (IF storageOk THEN {Null, "tok0"} ELSE {Null})
    /\ sessStore \in (IF storageOk THEN {Null, "sid0"} ELSE {Null})
    /\ tok = getToken(storageOk, stored).val
    /\ user = Null
    /\ winFetch = <<1>>
    /\ origOf = [i \in Installers |-> [active |-> i = 1, orig |-> <<>>]]
    /\ auth = IdleAuth
    /\ aux = IdleCall
    /\ mounted = FALSE
    /\ sessionId = Null
    /\ hydrating = TRUE
    /\ hist = IdleCall
    /\ messages = <<>>
    /\ query = <<>>
    /\ loading = FALSE
    /\ stream = TRUE
    /\ sends = <<>>

\* The stream decoder: one streaming send, every body of StreamContents, cut
\* into chunks at every position.
InitStream == Init /\ storageOk /\ stored = "tok0" /\ sessStore = "sid0"

NextStream ==
    \/ ChatMount
    \/ TypeQuery(Question)
    \/ (sends = <<>> /\ Send)
    \/ \E c \in StreamContents : StreamRespond(1, 200, TRUE, c)
    \/ \E k \in 1..Remaining(1) : StreamRead(1, k)
    \/ StreamEnd(1)
    \/ (InFlight # {} /\ Clear)

SpecStream == InitStream /\ [][NextStream]_vars

\* The frames as they are written: one streaming send whose body holds two
\* frames, with the marker or without it, with blanks around their text or
\* without, cut into chunks at every position.
PaddedBodies == { <<" ", "y">>, <<"y", " ">>, <<"z">>, DataX }
PaddedContents == { a \o Separator \o b \o Separator : a, b \in PaddedBodies }

NextFrames ==
    \/ ChatMount
    \/ TypeQuery(Question)
    \/ (sends = <<>> /\ Send)
    \/ \E c \in PaddedContents : StreamRespond(1, 200, TRUE, c)
    \/ \E k \in 1..Remaining(1) : StreamRead(1, k)
    \/ StreamEnd(1)

SpecFrames == InitStream /\ [][NextFrames]_vars

\* The history reconciler: the hydration effect on every history of at most
\* MaxRecords records.
NextHydrate ==
    \/ ChatMount
    \/ \E r \in HistResponses(MaxRecords, ResponseKinds) : HistRespond(r)
    \/ HistBody
    \/ HistNetFail

SpecHydrate == Init /\ [][NextHydrate]_vars

\* The hydration run again on a re-fetch: the chat page is left and mounted
\* again, the history holding records with and without their times.
NextRehydrate ==
    \/ ChatMount
    \/ \E r \in HistResponses(MaxRecords, {"text", "none", "undated"}) : HistRespond(r)
    \/ HistBody
    \/ HistNetFail
    \/ ChatUnmount

SpecRehydrate == Init /\ [][NextRehydrate]_vars


AppChunk == 8
AppBodies == { DataX \o Separator \o DataDone \o Separator, <<"y", NL>> \o Separator }
AppStatuses == {200, 401, 500}

\* the steps of the authentication session
AuthNext ==
    \/ Logout
    \/ Install(1)
    \/ Uninstall(1)
    \/ \E kind \in AuthKinds : AuthSubmit(kind)
    \/ \E r \in AuthResponses : AuthRespond(r)
    \/ AuthNetFail
    \/ AuthBody

AuxNext ==
    \/ AuxIssue
    \/ \E r \in AuxResponses : AuxRespond(r)
    \/ AuxSettle

\* the steps of the hydration effect, the history being one of at most n records
HydrateNext(n, kinds) ==
    \/ ChatMount
    \/ \E r \in HistResponses(n, kinds) : HistRespond(r)
    \/ HistBody
    \/ HistNetFail

\* the steps of a send, streamed bodies being cut after AppChunk bytes or not at all
SendNext ==
    \/ Send
    \/ \E n \in InFlight, st \in AppStatuses, hasBody \in BOOLEAN, c \in AppBodies :
           StreamRespond(n, st, hasBody, c)
    \/ \E n \in InFlight : \E k \in {AppChunk, Remaining(n)} : StreamRead(n, k)
    \/ \E n \in InFlight : StreamEnd(n)
    \/ \E n \in InFlight, r \in QueryResponses : QueryRespond(n, r)
    \/ \E n \in InFlight : QueryBody(n)
    \/ \E n \in InFlight : SendNetFail(n)

InputNext ==
    \/ Clear
    \/ \E q \in Queries : TypeQuery(q)
    \/ ToggleStream

\* the steps of the one send of a behaviour of Spec
OneSendNext ==
    \/ (sends = <<>> /\ Send)
    \/ \E n \in InFlight, st \in {200, 401}, c \in AppBodies : StreamRespond(n, st, TRUE, c)
    \/ \E n \in InFlight : \E k \in {AppChunk, Remaining(n)} : StreamRead(n, k)
    \/ \E n \in InFlight : StreamEnd(n)
    \/ \E n \in InFlight, r \in {x \in QueryResponses : x.body.kind = "json" /\ x.body.processing_time_ms # "0"} :
           QueryRespond(n, r)
    \/ \E n \in InFlight : QueryBody(n)
    \/ \E n \in InFlight : SendNetFail(n)

\* The whole client around one send, the interceptor installed, for a user who
\* is signed in: the authentication calls, a call of another page, the
\* hydration and the send, in every interleaving; the input is typed and the
\* mode is chosen before the send.
InitSignedIn == Init /\ storageOk /\ stored = "tok0" /\ sessStore = "sid0"

Next ==
    \/ Logout
    \/ \E kind \in AuthKinds : AuthSubmit(kind)
    \/ \E r \in {x \in AuthResponses : x.body.kind = "json"} : AuthRespond(r)
    \/ AuthNetFail
    \/ AuthBody
    \/ AuxNext
    \/ HydrateNext(1, {"text"})
    \/ OneSendNext
    \/ Clear
    \/ (sends = <<>> /\ TypeQuery(Question))
    \/ (sends = <<>> /\ ToggleStream)

Spec == InitSignedIn /\ [][Next]_vars

\* The authentication session alone, with and without usable storage, the
\* interceptor installed or not.
SpecAuth == Init /\ [][AuthNext \/ AuxNext]_vars

\* The effect that wraps window.fetch, run and cleaned up by two AuthProvider
\* instances in every order, around a call of another page.
InstallNext ==
    \/ \E i \in Installers : Install(i)
    \/ \E i \in Installers : Uninstall(i)
    \/ AuxNext

SpecInstall == Init /\ [][InstallNext]_vars

\* The chat page alone, for a user who is signed in.
InitChat == Init /\ storageOk /\ stored = "tok0"

SpecChat == InitChat /\ [][HydrateNext(1, {"text"}) \/ SendNext \/ InputNext]_vars

\* The session id over the life of a tab: the chat page mounted and left,
\* History's "Open in Chat", logout, a 401 on another page's call, hydration
\* and streamed sends.
SessionNext ==
    \/ ChatMount
    \/ ChatUnmount
    \/ \E sid \in HistorySessions : OpenInChat(sid)
    \/ Logout
    \/ AuxNext
    \/ \E r \in HistResponses(1, {"text"}) : HistRespond(r)
    \/ HistBody
    \/ TypeQuery(Question)
    \/ Send
    \/ \E n \in InFlight, st \in {200, 401} : StreamRespond(n, st, TRUE, ExampleHello)
    \/ \E n \in InFlight : StreamRead(n, Remaining(n))

SpecSession == Init /\ [][SessionNext]_vars

\* The requests the client issues, signed in or not, with and without usable
\* storage: login and signup, a call of another page, the history fetch of
\* ChatPage, sends of both modes; requests fail or, for login and signup and
\* the other page's call, are answered.
CallsNext ==
    \/ Logout
    \/ \E kind \in AuthKinds : AuthSubmit(kind)
    \/ \E r \in AuthResponses : AuthRespond(r)
    \/ AuthNetFail
    \/ AuthBody
    \/ AuxNext
    \/ ChatMount
    \/ HistNetFail
    \/ TypeQuery(Question)
    \/ ToggleStream
    \/ Send
    \/ \E n \in InFlight : SendNetFail(n)

SpecCalls == Init /\ [][CallsNext]_vars

\* the steps by which the network lets the send in flight go on or end, the
\* chunks of a body apart: the response, the end of the body, the body of a
\* JSON response, a failure
SendSteps ==
    \/ \E n \in InFlight, st \in AppStatuses, hasBody \in BOOLEAN, c \in AppBodies :
           StreamRespond(n, st, hasBody, c)
    \/ \E n \in InFlight : StreamEnd(n)
    \/ \E n \in InFlight, r \in QueryResponses : QueryRespond(n, r)
    \/ \E n \in InFlight : QueryBody(n)
    \/ \E n \in InFlight : SendNetFail(n)

\* The chat page with a network that leaves no request unanswered for ever:
\* the response, the end of the body or a failure comes in the end, the
\* chunks of a body (which are finitely many) being read as they come.
SpecChatFair ==
    InitChat /\ [][ChatMount \/ SendNext \/ InputNext]_vars /\ WF_vars(SendSteps)

\* The chat page from any start (a session id stored or not, storage usable
\* or not), the input taking also a question with blanks around it; a send
\* is answered by a stream, or fails.
Padded == <<" ">> \o Question \o <<" ">>

AcceptNext ==
    \/ HydrateNext(1, {"text"})
    \/ \E q \in Queries \cup {Padded} : TypeQuery(q)
    \/ ToggleStream
    \/ Send
    \/ \E n \in InFlight : StreamRespond(n, 200, TRUE, ExampleHello)
    \/ \E n \in InFlight : StreamRead(n, Remaining(n))
    \/ \E n \in InFlight : SendNetFail(n)

SpecAccept == Init /\ [][AcceptNext]_vars

\* The same chat page and network with a Logout button: RequireAuth shows the
\* page, and so lets a send start, only while a token is held in memory;
\* logout may come at any moment of a send.
LogoutNext ==
    \/ ChatMount
    \/ (tok # Null /\ Send)
    \/ SendSteps
    \/ \E n \in InFlight : \E k \in {AppChunk, Remaining(n)} : StreamRead(n, k)
    \/ InputNext
    \/ Logout

SpecLogoutFair ==
    InitChat /\ [][LogoutNext]_vars /\ WF_vars(SendSteps)

----------------------------------------------------------------------------
(* The stream decoder: C1, C2, C3 *)

StreamSends == {n \in 1..Len(sends) : sends[n].mode = "stream"}

\* the part of the body of send n that has arrived
Arrived(n) == SubSeq(sends[n].content, 1, sends[n].pos)

\* the payloads onChunk gets when a body arrives as one single chunk
OneChunk(content) == ReadChunk(<<>>, <<>>, content).out

\* C1: however the body is cut into chunks, onChunk gets the payloads it gets
\* when the same bytes arrive as one chunk: after every chunk for the bytes
\* that have arrived, and at the end for the whole body.
C1_ChunkingInvariant ==
    \A n \in StreamSends :
        /\ sends[n].pc = "stream" => sends[n].delivered = OneChunk(Arrived(n))
        /\ sends[n].outcome = "ok" => sends[n].delivered = OneChunk(sends[n].content)

\* a chunk has ended inside the two-byte character of the second frame, after
\* the first frame's payload was delivered
C1_Witness ==
    \E n \in StreamSends :
        /\ sends[n].pc = "stream"
        /\ sends[n].pending = <<LeadByte>>
        /\ sends[n].delivered # <<>>

\* the complete frames of a text: the trimmed texts that end at a blank line
RECURSIVE CompleteFrames(_)
CompleteFrames(text) ==
    LET idx == IndexOfBlankLine(text)
    IN  IF idx = 0 THEN <<>>
        ELSE <<Trim(SubSeq(text, 1, idx - 1))>> \o CompleteFrames(SubSeq(text, idx + 2, Len(text)))

HasMarker(frame) == StartsWith(frame, DataMarker)

\* the payload of a frame: its text behind the marker, or its text
PayloadOf(frame) ==
    IF HasMarker(frame) THEN Trim(SubSeq(frame, Len(DataMarker) + 1, Len(frame))) ELSE frame

\* the frames of the body of send n that have arrived in full
FramesArrived(n) == CompleteFrames(Utf8Decode(Arrived(n)).chars)

\* the payloads of the frames before frame i, empty frames left out
RECURSIVE PayloadsBefore(_, _)
PayloadsBefore(frames, i) ==
    IF i <= 1 THEN <<>>
    ELSE PayloadsBefore(frames, i - 1)
         \o (IF frames[i - 1] = <<>> THEN <<>> ELSE <<PayloadOf(frames[i - 1])>>)

\* once the frame at i has arrived, ragStream has returned and onChunk got the
\* payloads of the frames before it and nothing else
StoppedAt(n, i) ==
    /\ sends[n].pc = "done"
    /\ sends[n].outcome = "ok"
    /\ sends[n].delivered = PayloadsBefore(FramesArrived(n), i)

FirstIn(S) == CHOOSE i \in S : \A j \in S : i <= j

\* C2 as claimed: once a frame whose payload is [DONE] has arrived, with the
\* marker or without it, ragStream has returned and onChunk is not called for
\* it nor for a later frame.
C2_AnyDonePayloadStops ==
    \A n \in StreamSends :
        sends[n].pc \in {"stream", "done"} /\ sends[n].res.status = 200 =>
            LET frames == FramesArrived(n)
                hits == {i \in 1..Len(frames) : PayloadOf(frames[i]) = DoneSentinel}
            IN  hits # {} => StoppedAt(n, FirstIn(hits))

\* C2, amended: once a frame that carries the data: marker and whose payload
\* is [DONE] has arrived, ragStream has returned and onChunk got the payloads
\* of the frames before it and nothing else, whatever follows it in the buffer
\* or in the chunks still to come; and the body
\* "data: Hello\n\ndata: [DONE]\n\n" gives the one callback Hello.
C2_MarkedSentinelStops ==
    \A n \in StreamSends :
        sends[n].pc \in {"stream", "done"} /\ sends[n].res.status = 200 =>
            LET frames == FramesArrived(n)
                hits == {i \in 1..Len(frames) :
                            HasMarker(frames[i]) /\ PayloadOf(frames[i]) = DoneSentinel}
            IN  /\ hits # {} => StoppedAt(n, FirstIn(hits))
                /\ sends[n].content = ExampleHello /\ sends[n].pc = "done"
                       => sends[n].delivered = << <<"H", "e", "l", "l", "o">> >>

\* ragStream returned at a sentinel that was followed by another frame, part of
\* which had arrived in the same chunk
C2_Witness ==
    \E n \in StreamSends :
        /\ sends[n].outcome = "ok"
        /\ sends[n].content = DataDone \o Separator \o DataX \o Separator
        /\ sends[n].pos > Len(DataDone \o Separator)
        /\ sends[n].pos < Len(sends[n].content)
        /\ sends[n].delivered = <<>>

\* C3: while a streaming send runs and when it has settled successfully, the
\* text of the message with the placeholder's id is the concatenation, in the
\* order of arrival, of the payloads onChunk got.
C3_TextIsConcatenation ==
    \A n \in StreamSends :
        sends[n].pc = "stream" \/ sends[n].outcome = "ok" =>
            \A i \in 1..Len(messages) :
                messages[i].id = sends[n].aid => messages[i].text = Concat(sends[n].delivered)

\* foo, bar and the sentinel have arrived and the placeholder reads foobar
C3_Witness ==
    \E n \in StreamSends, i \in 1..Len(messages) :
        /\ sends[n].outcome = "ok"
        /\ sends[n].content = ExampleFooBar
        /\ sends[n].delivered = << <<"f", "o", "o">>, <<"b", "a", "r">> >>
        /\ messages[i].id = sends[n].aid
        /\ messages[i].text = <<"f", "o", "o", "b", "a", "r">>


----------------------------------------------------------------------------
(* The busy flag: C4 *)

\* C4: a call of send() while the busy flag is set changes nothing: not the
\* messages, not the input, not the busy flag, and it issues no request; the
\* busy flag is set while a send is in flight, and at most one send is in
\* flight in every reachable state.
C4_BusySendIsNoOp ==
    /\ [](Cardinality(InFlight) <= 1 /\ (InFlight # {} => loading))
    /\ [][loading /\ Send => UNCHANGED <<messages, query, loading, sends>>]_vars

\* a send is in flight and the input holds a question again: send() would pass
\* the blank test and is stopped by the busy flag alone
C4_Witness ==
    /\ loading
    /\ Cardinality(InFlight) = 1
    /\ Trim(query) # <<>>
    /\ Len(messages) = 2

----------------------------------------------------------------------------
(* Hydration: C5 *)

\* the history the hydration effect got, newest first
Hydrated == hist.pc = "done" /\ ResOk(hist.res) /\ hist.res.body.kind = "json"

CarriesResponse(q) == q.response.present
CarriesText(q) == q.response.present /\ q.response.response_text # <<>>

\* the number of records of qs older than the i-th for which Has holds
RECURSIVE OlderWith(_, _, _)
OlderWith(Has(_), qs, i) ==
    IF i >= Len(qs) THEN 0
    ELSE (IF Has(qs[i + 1]) THEN 1 ELSE 0) + OlderWith(Has, qs, i + 1)

\* the messages are those of the records qs, oldest first: for each record its
\* user message, followed by its assistant message if Has holds of it
YieldsMessages(Has(_), qs) ==
    LET N == Len(qs)
        at(i) == (N - i) + OlderWith(Has, qs, i) + 1
    IN  /\ Len(messages) = N + OlderWith(Has, qs, 0)
        /\ \A i \in 1..N :
              /\ at(i) <= Len(messages)
              /\ messages[at(i)].role = "user"
              /\ messages[at(i)].text = qs[i].query_text
              /\ Has(qs[i]) =>
                    /\ at(i) + 1 <= Len(messages)
                    /\ messages[at(i) + 1].role = "assistant"
                    /\ messages[at(i) + 1].text = qs[i].response.response_text

\* C5 as claimed: hydration from N records, M of which carry a response
\* payload, gives N + M messages, oldest first, an assistant message behind
\* the user message of each record that carries a response payload.
C5_AssistantPerResponse ==
    Hydrated => YieldsMessages(CarriesResponse, hist.res.body.queries)

\* C5, amended: hydration from N records, M of which carry a response payload
\* with a non-empty response text, gives N + M messages, oldest first, an
\* assistant message behind the user message of each of these M records and a
\* user message alone for every other record.
C5_AssistantPerResponseText ==
    Hydrated => YieldsMessages(CarriesText, hist.res.body.queries)

\* hydrated from two records, the newer without a response text and the older
\* with one: three messages
C5_Witness ==
    /\ Hydrated
    /\ Len(hist.res.body.queries) = 2
    /\ ~CarriesText(hist.res.body.queries[1])
    /\ CarriesResponse(hist.res.body.queries[1])
    /\ CarriesText(hist.res.body.queries[2])
    /\ Len(messages) = 3
    /\ messages[2].role = "assistant"


----------------------------------------------------------------------------
(* Login and signup, the token store: C7, C8, C9 *)

\* the response is a success that carries a token
GrantsToken(res) ==
    ResOk(res) /\ res.body.kind = "json" /\ Truthy(res.body.access_token)

\* C7 as claimed: when the endpoint answers login or signup with a success
\* that carries token T and user U, the call returns true and afterwards
\* TokenStore.get() returns T, the in-memory token is T and the user is U.
C7_LoginStoresToken ==
    [][AuthBody /\ GrantsToken(auth.res) =>
          /\ auth'.result
          /\ getToken(storageOk', stored').val = auth.res.body.access_token
          /\ tok' = auth.res.body.access_token
          /\ user' = auth.res.body.user]_vars

\* C7, amended: when the endpoint answers login or signup with a success that
\* carries token T and user U, the call returns true and afterwards the
\* in-memory token is T and the user is U; TokenStore.get() returns T if the
\* storage is usable, and null if it is not.
C7_LoginStoresTokenIfUsable ==
    [][AuthBody /\ GrantsToken(auth.res) =>
          /\ auth'.result
          /\ getToken(storageOk', stored').val =
                 (IF storageOk THEN auth.res.body.access_token ELSE Null)
          /\ tok' = auth.res.body.access_token
          /\ user' = auth.res.body.user]_vars

\* a login or signup has returned true with usable storage: tok1 and u1 are in
\* place of what was there
C7_Witness ==
    /\ auth.pc = "done" /\ auth.result
    /\ storageOk
    /\ getToken(storageOk, stored).val = "tok1"
    /\ tok = "tok1"
    /\ user = "u1"

\* login or signup fails in this step: the request or the reading of the body
\* fails, or the body is not a success that carries a token
LoginFails == AuthNetFail \/ (AuthBody /\ ~GrantsToken(auth.res))

\* C8: when login or signup fails, it returns false and leaves the stored
\* token, the in-memory token and the user as they were.
C8_FailedLoginKeepsTokens ==
    [][LoginFails => ~auth'.result /\ UNCHANGED authVars]_vars

\* the tokens a caller may hand to setToken
TokenInputs == {Null, "", "tok1"}

\* C9: getToken and setToken never throw; with the storage unavailable
\* getToken returns null and setToken changes nothing; with the storage
\* working, getToken after setToken(t) returns t for a non-empty t and null
\* for null.
C9_TokenStoreNeverThrows ==
    /\ ~getToken(storageOk, stored).threw
    /\ ~storageOk => getToken(storageOk, stored).val = Null
    /\ \A t \in TokenInputs :
          LET w == setToken(storageOk, stored, t)
          IN  /\ ~w.threw
              /\ ~getToken(storageOk, w.store).threw
              /\ ~storageOk => w.store = stored
              /\ storageOk /\ Truthy(t) => getToken(storageOk, w.store).val = t
              /\ storageOk /\ t = Null => getToken(storageOk, w.store).val = Null

\* the storage is unavailable and a login has gone through setToken all the
\* same: it returned true, the in-memory token is set, the store reads empty
C9_Witness ==
    /\ ~storageOk
    /\ auth.pc = "done" /\ auth.result
    /\ tok = "tok1"
    /\ getToken(storageOk, stored).val = Null


----------------------------------------------------------------------------
(* The interceptor: C6, C10 *)

\* the stored token, the in-memory token and the user are empty
TokensEmpty == getToken(storageOk, stored).val = Null /\ tok = Null /\ user = Null

SendIds == 1..Len(sends)

\* a call issued through the interceptor gets a 401 response in this step
Gets401 ==
    \/ \E r \in AuthResponses : r.status = 401 /\ auth.via # <<>> /\ AuthRespond(r)
    \/ \E r \in AuxResponses : r.status = 401 /\ aux.via # <<>> /\ AuxRespond(r)
    \/ \E r \in HistFailures : r.status = 401 /\ hist.via # <<>> /\ HistRespond(r)
    \/ \E n \in SendIds, r \in QueryResponses :
           r.status = 401 /\ sends[n].via # <<>> /\ QueryRespond(n, r)
    \/ \E n \in SendIds, c \in AppBodies :
           sends[n].via # <<>> /\ StreamRespond(n, 401, TRUE, c)

\* a call that went through the interceptor and was answered 401 settles for
\* its caller in this step
Settles401 ==
    \/ auth.pc = "text" /\ auth.res.status = 401 /\ auth.via # <<>> /\ (AuthBody \/ AuthNetFail)
    \/ aux.pc = "text" /\ aux.res.status = 401 /\ aux.via # <<>> /\ AuxSettle
    \/ hist.pc = "text" /\ hist.res.status = 401 /\ hist.via # <<>> /\ (HistBody \/ HistNetFail)
    \/ \E n \in SendIds :
           /\ sends[n].pc = "text" /\ sends[n].res.status = 401 /\ sends[n].via # <<>>
           /\ QueryBody(n) \/ SendNetFail(n)
    \/ \E n \in SendIds, c \in AppBodies :
           sends[n].via # <<>> /\ StreamRespond(n, 401, TRUE, c)

\* a call that was answered 401 has not settled yet
Pending401 ==
    \/ auth.pc = "text" /\ auth.res.status = 401
    \/ aux.pc = "text" /\ aux.res.status = 401
    \/ hist.pc = "text" /\ hist.res.status = 401
    \/ \E n \in SendIds : sends[n].pc = "text" /\ sends[n].res.status = 401

\* C6 as claimed: when a call that went through the interceptor and was
\* answered 401 settles for its caller, the stored token, the in-memory token
\* and the user are empty, whatever other calls are in flight.
C6_EmptyAtSettle == [][Settles401 => TokensEmpty']_vars

\* C6, amended: when a call that goes through the interceptor is answered 401,
\* the stored token, the in-memory token and the user are empty as soon as the
\* response has arrived, whichever call it is; they are still empty when the
\* call settles for its caller unless a login or signup that was in flight
\* has succeeded in between, which is the only step that fills them while the
\* call is pending.
C6_EmptyAtResponse ==
    [][/\ Gets401 => TokensEmpty'
       /\ Pending401 /\ TokensEmpty /\ ~TokensEmpty' => AuthBody /\ auth'.result
       /\ Settles401 /\ TokensEmpty => TokensEmpty']_vars

\* a login has succeeded, then a call of another page was answered 401: its
\* body has not arrived, the token and the user are gone already
C6_Witness ==
    /\ auth.pc = "done" /\ auth.result
    /\ aux.pc = "text" /\ aux.res.status = 401
    /\ TokensEmpty
    /\ loading

HoldsMarker(n, message) ==
    \A i \in 1..Len(messages) :
        messages[i].id = sends[n].aid => messages[i].text = ErrorMarker(message)

\* a send that was answered 401 ends in this step
SendEnds401(n) ==
    \/ sends[n].pc = "text" /\ sends[n].res.status = 401 /\ QueryBody(n)
    \/ \E c \in AppBodies : StreamRespond(n, 401, TRUE, c)

\* C10 as claimed, for the send: a send whose request is answered 401 ends
\* with the error marker in the placeholder, the busy flag released and the
\* token and the user cleared.
C10_SendEndsLoggedOut ==
    [][\A n \in SendIds :
          SendEnds401(n) => ~loading' /\ TokensEmpty'
                            /\ \A i \in 1..Len(messages') :
                                  messages'[i].id = sends[n].aid
                                      => messages'[i].text[1] = "Error: "]_vars

\* the caller of an intercepted call is handed the response that arrived
HandsOver ==
    /\ \A r \in AuthResponses : AuthRespond(r) => auth'.res = r
    /\ \A r \in AuxResponses : AuxRespond(r) => aux'.res = r
    /\ \A r \in HistResponses(1, {"text"}) : HistRespond(r) => hist'.res = r
    /\ \A n \in SendIds, r \in QueryResponses : QueryRespond(n, r) => sends'[n].res = r
    /\ \A n \in SendIds, st \in {200, 401}, c \in AppBodies :
           StreamRespond(n, st, TRUE, c) => sends'[n].res.status = st
                                            /\ sends'[n].res.body.kind = "stream"

\* C10, amended: the caller of an intercepted call is handed the response that
\* arrived, and for a 401 logout() has run by then, on top of the call's own
\* failure path: a send whose request is answered 401 has the token and the
\* user cleared when the response arrives, and it ends with the error marker
\* built from that response in every message that still has the placeholder's
\* id and with the busy flag released; the token and the user are still
\* cleared at that end unless a login or signup has succeeded since the
\* response arrived.
C10_ObservesNeverSwallows ==
    [][/\ HandsOver
       /\ \A n \in SendIds, r \in QueryResponses :
              QueryRespond(n, r) /\ r.status = 401 => TokensEmpty' /\ loading'
       /\ \A n \in SendIds :
              /\ sends[n].pc = "text" /\ sends[n].res.status = 401 /\ QueryBody(n)
                     => /\ ~loading'
                        /\ sends'[n].outcome = "error"
                        /\ HoldsMarker(n, "Not authenticated")'
                        /\ UNCHANGED authVars
              /\ (\E c \in AppBodies : StreamRespond(n, 401, TRUE, c))
                     => /\ ~loading'
                        /\ sends'[n].outcome = "error"
                        /\ HoldsMarker(n, "Streaming failed: 401 Unauthorized")'
                        /\ TokensEmpty'
              /\ sends[n].pc = "text" /\ sends[n].res.status = 401
                 /\ TokensEmpty /\ ~TokensEmpty' => AuthBody /\ auth'.result]_vars

\* a send that was not streamed was answered 401 and has ended: the error
\* marker of the response's detail is in the placeholder, the busy flag is
\* released, nobody is signed in
C10_Witness ==
    \E n \in SendIds, i \in 1..Len(messages) :
        /\ sends[n].mode = "json" /\ sends[n].pc = "done"
        /\ sends[n].res.status = 401
        /\ messages[i].id = sends[n].aid
        /\ messages[i].text = ErrorMarker("Not authenticated")
        /\ ~loading
        /\ TokensEmpty


----------------------------------------------------------------------------
(* Installing the interceptor: C11 *)

\* C11: after any sequence of install and uninstall steps at most one wrapper
\* is active on window.fetch, so that one 401 response runs logout() at most
\* once, and when every installation has been uninstalled window.fetch is the
\* original function again.
C11_InstallIdempotent ==
    /\ Len(winFetch) <= 1
    /\ \A r \in AuxResponses : Intercepted(winFetch, r).logouts <= 1
    /\ (\A i \in Installers : ~origOf[i].active) => winFetch = <<>>


----------------------------------------------------------------------------
(* The life of a send: C12 *)

\* send n settles in this step
Settling(n) == sends[n].pc # "done" /\ sends'[n].pc = "done"

\* C12: when the network answers or fails every request, the busy flag that
\* a send has set is released in the end, whether the send succeeds or fails;
\* and it is released once per send: in the step in which the send settles
\* and in no other.
C12_BusyReleasedOnce ==
    /\ loading ~> ~loading
    /\ [][(loading /\ ~loading') <=> (\E n \in SendIds : Settling(n))]_vars

\* a send has failed after a chunk of its stream was applied, and the busy
\* flag is released
C12_Witness ==
    \E n \in SendIds :
        /\ sends[n].outcome = "error"
        /\ sends[n].delivered # <<>>
        /\ ~loading


----------------------------------------------------------------------------
(* The session id: C13 *)

\* what the session effect does when ChatPage is mounted: a stored id is
\* taken as it is; otherwise a fresh id is taken, and stored if the storage
\* is usable
MountTakesStoredId ==
    ChatMount =>
        IF storageOk /\ Truthy(sessStore)
        THEN sessionId' = sessStore /\ sessStore' = sessStore
        ELSE sessionId' = FreshSession /\ sessStore' = (IF storageOk THEN FreshSession ELSE sessStore)

\* C13 as claimed (read for a tab whose storage is usable): the stored id is
\* read on first use, generated and stored if absent, reused as it is
\* otherwise, and a stored session id never changes and is never cleared,
\* whatever the application does.
C13_SessionIdNeverChanges ==
    [][/\ ChatMount /\ storageOk =>
              IF Truthy(sessStore)
              THEN sessionId' = sessStore /\ sessStore' = sessStore
              ELSE sessionId' = FreshSession /\ sessStore' = FreshSession
       /\ Truthy(sessStore) => sessStore' = sessStore]_vars

\* C13, amended: with usable storage the stored id is read on first use,
\* generated and stored if absent and reused as it is otherwise (without
\* usable storage every chat initialisation takes a fresh id and stores
\* nothing); the id ChatPage holds changes only when ChatPage is mounted or
\* left; and a stored session id is changed or emptied by nothing but
\* "Open in Chat" of the history page, which puts the record's session id, or
\* the empty string, in its place.
C13_SessionIdChangesOnlyByOpenInChat ==
    [][/\ MountTakesStoredId
       /\ sessionId' # sessionId => ChatMount \/ ChatUnmount
       /\ Truthy(sessStore) /\ sessStore' # sessStore
              => \E sid \in HistorySessions : OpenInChat(sid)]_vars

\* the chat page runs on the session that "Open in Chat" stored in place of
\* the tab's first one, after a send and a logout
C13_Witness ==
    /\ mounted
    /\ sessionId = "sid-h"
    /\ sessStore = "sid-h"
    /\ Settled # {}
    /\ tok = Null


----------------------------------------------------------------------------
(* The Authorization header: C14 *)

\* a send is accepted in this step
Accepted == Len(sends') = Len(sends) + 1

\* the token TokenStore holds
StoredToken == getToken(storageOk, stored).val

\* login and signup requests carry no Authorization header
LoginBare == \A kind \in AuthKinds : AuthSubmit(kind) => auth'.authorization = NoHeader

\* C14 as claimed: every call but login and signup is issued with the header
\* Authorization: Bearer and the token stored at that moment; login and signup
\* are issued without an Authorization header.
C14_AlwaysBearer ==
    [][/\ AuxIssue => aux'.authorization = Bearer(StoredToken)
       /\ ChatMount => hist'.authorization = Bearer(StoredToken)
       /\ Accepted => sends'[Len(sends')].req.authorization = Bearer(StoredToken)
       /\ LoginBare]_vars

\* C14, amended: every call but login and signup is issued with the header
\* Authorization: Bearer and the token stored at that moment if a token is
\* stored then, and without an Authorization header if none is stored (or
\* the storage cannot be read); login and signup are issued without an
\* Authorization header.
C14_BearerIfStored ==
    [][LET expected == IF Truthy(StoredToken) THEN Bearer(StoredToken) ELSE NoHeader
       IN  /\ AuxIssue => aux'.authorization = expected
           /\ ChatMount => hist'.authorization = expected
           /\ Accepted => sends'[Len(sends')].req.authorization = expected
           /\ LoginBare]_vars

\* a send is on its way with the token a login has stored, and a further
\* login is on its way without a header
C14_Witness ==
    /\ InFlight # {}
    /\ \A n \in InFlight : sends[n].pc = "fetch" /\ sends[n].req.authorization = Bearer("tok1")
    /\ auth.pc = "fetch"
    /\ auth.authorization = NoHeader
    /\ StoredToken = "tok1"


----------------------------------------------------------------------------
(* Logout during a send: C15 *)

\* C15: logout clears the stored token, the token held in memory and the
\* current user in one step and touches no request: the sends, the other
\* calls, the messages and the busy flag are as they were. A send that is in
\* flight after a logout goes on: the text of the message with its
\* placeholder's id is still the
\* concatenation of the payloads of its stream, and it settles and releases
\* the busy flag in the end.
C15_LogoutCancelsNothing ==
    /\ [][Logout => /\ getToken(storageOk, stored').val = Null
                    /\ tok' = Null
                    /\ user' = Null
                    /\ UNCHANGED <<sends, auth, aux, hist, messages, loading>>]_vars
    /\ [](tok = Null =>
            \A n \in StreamSends :
                sends[n].pc = "stream" \/ sends[n].outcome = "ok" =>
                    \A i \in 1..Len(messages) :
                        messages[i].id = sends[n].aid =>
                            messages[i].text = Concat(sends[n].delivered))
    /\ (tok = Null /\ loading) ~> ~loading

\* a streaming send that was started signed in has settled successfully
\* after a logout, its chunks applied and the busy flag released
C15_Witness ==
    \E n \in StreamSends, i \in 1..Len(messages) :
        /\ tok = Null
        /\ getToken(storageOk, stored).val = Null
        /\ sends[n].outcome = "ok"
        /\ sends[n].delivered # <<>>
        /\ messages[i].id = sends[n].aid
        /\ messages[i].text = Concat(sends[n].delivered)
        /\ ~loading


----------------------------------------------------------------------------
(* Hydration run again: C16 *)

\* the ids of the messages of the record with id n
IdsOf(n) == {RecId(n, ":u"), RecId(n, ":a")}

\* C16: the messages hydrated from the records of a history are the messages
\* any further run of the reconciler on the same records gives (same ids,
\* roles, texts, creation times, order); the id of each is the id of its
\* record followed by :u for the user message and :a for the assistant
\* message, and no two messages have the same id.
C16_RefetchSameMessages ==
    Hydrated /\ hist.res.body.queries # <<>> =>
        LET qs == hist.res.body.queries
        IN  /\ \A now \in Clock : Reconcile(qs, now) = messages
            /\ \A i \in 1..Len(messages) :
                  \E k \in 1..Len(qs) :
                      messages[i].id = RecId(qs[k].id, IF messages[i].role = "user" THEN ":u" ELSE ":a")
            /\ \A i, j \in 1..Len(messages) : messages[i].id = messages[j].id => i = j


----------------------------------------------------------------------------
(* An accepted send: C17 *)

\* send() is called while the engine is idle and the input is not blank
AcceptedSend == Send /\ ~loading /\ Trim(query) # <<>>

\* C17: an accepted send (busy flag not set, input not blank) appends, in one
\* step and at the end of the list, a user message whose text is the input as
\* it was typed and behind it an assistant placeholder with empty text; the
\* earlier messages are unchanged; the input is cleared and the busy flag
\* set; the payload of the one request it issues carries the same text and
\* the current session id.
C17_AcceptedSendAppends ==
    [][AcceptedSend =>
          LET N == Len(messages)
              S == Len(sends)
          IN  /\ Len(messages') = N + 2
              /\ SubSeq(messages', 1, N) = messages
              /\ messages'[N + 1].role = "user"
              /\ messages'[N + 1].text = query
              /\ messages'[N + 2].role = "assistant"
              /\ messages'[N + 2].text = <<>>
              /\ messages'[N + 2].id = sends'[S + 1].aid
              /\ query' = <<>>
              /\ loading'
              /\ Len(sends') = S + 1
              /\ SubSeq(sends', 1, S) = sends
              /\ sends'[S + 1].req.query = query
              /\ sends'[S + 1].req.session_id = sessionId]_vars

\* a question typed with blanks around it was sent behind two hydrated
\* messages: it is the text of the user message and of the payload as typed
C17_Witness ==
    /\ Len(messages) = 4
    /\ messages[1].id = RecId(1, ":u")
    /\ messages[3].role = "user"
    /\ messages[3].text = Padded
    /\ messages[4].role = "assistant"
    /\ messages[4].text = <<>>
    /\ query = <<>>
    /\ loading
    /\ Len(sends) = 1
    /\ sends[1].pc = "fetch"
    /\ sends[1].req.query = Padded
    /\ sends[1].req.session_id = sessionId
    /\ sessionId = "sid0"


----------------------------------------------------------------------------
(* A failed send: C18 *)

\* send n fails in this step
Failing(n) == Settling(n) /\ sends'[n].outcome = "error"

\* the messages of the failures send n can meet where it stands: the fetch
\* or the reading of the body rejected, the streaming endpoint answered
\* without success or without a body, the query endpoint's answer was thrown
\* by handleJsonResponse
FailureMessages(n) ==
    {"Failed to fetch"}
        \cup (IF sends[n].pc = "fetch" /\ sends[n].mode = "stream"
              THEN {StreamFailed(sends'[n].res.status)} ELSE {})
        \cup (IF sends[n].pc = "text" THEN {handleJsonResponse(sends[n].res).message} ELSE {})

\* C18: in the step in which a send fails, wherever it stood (no response
\* yet, a response without success, a body that cannot be read, a stream of
\* which chunks were applied), the text of the message with the placeholder's
\* id becomes the error marker built from the message of the failure, in
\* place of what it was; that message has no processing time, token count or
\* sources; every other message is unchanged.
C18_FailureLeavesErrorMarker ==
    [][\A n \in SendIds :
          Failing(n) =>
              /\ Len(messages') = Len(messages)
              /\ \A i \in 1..Len(messages) :
                    IF messages[i].id = sends[n].aid
                    THEN /\ messages'[i].text \in {ErrorMarker(m) : m \in FailureMessages(n)}
                         /\ messages'[i].meta = NoMeta
                         /\ messages'[i] = [messages[i] EXCEPT !.text = messages'[i].text]
                    ELSE messages'[i] = messages[i]]_vars

\* a send has failed behind two hydrated messages after a chunk of its stream
\* was applied: its placeholder holds the marker alone and no metadata
C18_Witness ==
    \E n \in SendIds :
        /\ sends[n].outcome = "error"
        /\ sends[n].delivered # <<>>
        /\ Len(messages) = 4
        /\ messages[1].id = RecId(1, ":u")
        /\ messages[4].id = sends[n].aid
        /\ messages[4].text = ErrorMarker("Failed to fetch")
        /\ messages[4].meta = NoMeta


----------------------------------------------------------------------------
(* The processing time: C19 *)

\* send n settles successfully in this step
Succeeding(n) == Settling(n) /\ sends'[n].outcome = "ok"

\* the processing time the query endpoint reported to send n, Null if none
Reported(n) ==
    IF sends[n].mode = "json" /\ sends[n].res.body.kind = "json"
    THEN sends[n].res.body.processing_time_ms
    ELSE Null

\* C19: in the step in which a send settles successfully the processing time
\* of the message with the placeholder's id is the one the server reported,
\* whatever its value (0 too), and a client-measured time only if the server
\* reported none; a streaming send gets no server value and has a
\* client-measured time.
C19_ServerTimeWins ==
    [][\A n \in SendIds :
          Succeeding(n) =>
              \A i \in 1..Len(messages') :
                  messages'[i].id = sends[n].aid =>
                      IF Reported(n) # Null
                      THEN messages'[i].meta.processing_time_ms = Reported(n)
                      ELSE messages'[i].meta.processing_time_ms \in Elapsed]_vars


----------------------------------------------------------------------------
(* The answer and its metadata: C20 *)

\* the JSON answer handed to send n by ragQuery: an empty body reads as {}
Answer(n) ==
    IF sends[n].res.body.kind = "json" THEN sends[n].res.body
    ELSE QueryJson(<<>>, Null, Null, Null)

\* C20: in the step in which a non-streaming send settles successfully the
\* message with the placeholder's id gets the whole response text of the one
\* JSON answer for its text, the total token count the server reported and
\* the source attributions of the answer; in the step in which a streaming
\* send settles successfully that message has no source attributions and no
\* token count.
C20_AnswerAndMetadata ==
    [][\A n \in SendIds :
          Succeeding(n) =>
              \A i \in 1..Len(messages') :
                  messages'[i].id = sends[n].aid =>
                      IF sends[n].mode = "json"
                      THEN /\ messages'[i].text = Answer(n).response
                           /\ messages'[i].meta.total_tokens = Answer(n).total_tokens
                           /\ messages'[i].meta.sources = Answer(n).context_documents
                      ELSE /\ messages'[i].meta.total_tokens = Null
                           /\ messages'[i].meta.sources = Null]_vars

\* a non-streaming send has settled with the answer's text, token count and
\* sources on its placeholder
C20_Witness ==
    \E n \in SendIds, i \in 1..Len(messages) :
        /\ sends[n].mode = "json"
        /\ sends[n].outcome = "ok"
        /\ messages[i].id = sends[n].aid
        /\ messages[i].text = <<"a", "n", "s">>
        /\ messages[i].meta.total_tokens = "42"
        /\ messages[i].meta.sources = "docs"
        /\ ~loading

----------------------------------------------------------------------------
(* The open assistant message: C21 *)

\* the messages that can still get streamed text: those with the id of the
\* placeholder of a send that has not settled
OpenMessages == {i \in 1..Len(messages) : \E n \in InFlight : messages[i].id = sends[n].aid}

----------------------------------------------------------------------------
(* The frame of a chunk: C22 *)

\* the payloads onChunk gets for send n in this step
NewPayloads(n) == SubSeq(sends'[n].delivered, Len(sends[n].delivered) + 1, Len(sends'[n].delivered))

\* payloads are applied for send n in this step
Applying(n) == sends[n].pc = "stream" /\ NewPayloads(n) # <<>>

\* the messages with the id of the placeholder of send n
Matching(n) == {i \in 1..Len(messages) : messages[i].id = sends[n].aid}

\* C22: a step that applies decoded payloads leaves the length and the order
\* of the list and every message but the one with the placeholder's id as
\* they were, and of that one it changes the text alone, the payloads being
\* put behind it (the processing time too if the send settles in that step);
\* the ids of the messages of the list are pairwise distinct, those made by a
\* send being unlike the hydrated ones, so that the placeholder of a send is
\* the one message with its id as long as it is in the list.
C22_ChunkTouchesPlaceholderOnly ==
    /\ [](/\ \A i, j \in 1..Len(messages) : messages[i].id = messages[j].id => i = j
          /\ \A n \in SendIds : Cardinality(Matching(n)) <= 1)
    /\ [][\A n \in SendIds :
             Applying(n) =>
                 /\ Len(messages') = Len(messages)
                 /\ \A i \in 1..Len(messages) :
                       IF i \in Matching(n)
                       THEN /\ messages'[i].text = messages[i].text \o Concat(NewPayloads(n))
                            /\ messages'[i].id = messages[i].id
                            /\ messages'[i].role = messages[i].role
                            /\ messages'[i].createdAt = messages[i].createdAt
                            /\ Settling(n) \/ messages'[i].meta = messages[i].meta
                       ELSE messages'[i] = messages[i]]_vars

\* behind two hydrated messages a payload was applied to the placeholder of a
\* send that is still streaming: the hydrated answer reads as before
C22_Witness ==
    \E n \in InFlight :
        /\ sends[n].pc = "stream"
        /\ sends[n].delivered # <<>>
        /\ Len(messages) = 4
        /\ messages[2].id = RecId(1, ":a")
        /\ messages[2].text = <<"r">>
        /\ Matching(n) = {4}
        /\ messages[4].text = Concat(sends[n].delivered)
        /\ messages[4].text # <<>>

----------------------------------------------------------------------------
(* The end of the source: C23 *)

\* the frames of the whole body of send n, and those that are the sentinel
FramesOf(n) == CompleteFrames(Utf8Decode(sends[n].content).chars)
Sentinels(n) ==
    {i \in 1..Len(FramesOf(n)) :
        HasMarker(FramesOf(n)[i]) /\ PayloadOf(FramesOf(n)[i]) = DoneSentinel}

\* the body of send n has ended and held no sentinel
EndedWithoutSentinel(n) ==
    /\ sends[n].pc = "done"
    /\ sends[n].res.status = 200
    /\ sends[n].pos = Len(sends[n].content)
    /\ Sentinels(n) = {}

IsErrorMarker(text) == text # <<>> /\ text[1] = "Error: "

\* C23 as claimed: when the body of a streaming send has ended without a
\* sentinel, the send has settled on the success path and onChunk was called
\* once for every complete frame of the body, and not for a text at the end
\* that no blank line closes; no error marker, the busy flag released.
C23_EveryFrameDelivered ==
    \A n \in StreamSends :
        EndedWithoutSentinel(n) =>
            /\ sends[n].outcome = "ok"
            /\ Len(sends[n].delivered) = Len(FramesOf(n))
            /\ \A i \in 1..Len(messages) :
                  messages[i].id = sends[n].aid => ~IsErrorMarker(messages[i].text)
            /\ ~loading

\* C23, amended: when the body of a streaming send has ended without a
\* sentinel, the send has settled on the success path: onChunk got the
\* payload of every complete frame that is not empty, in order (an empty
\* frame is skipped), and nothing of a text at the end that no blank line
\* closes; the message with the placeholder's id holds no error marker and
\* the busy flag is released.
C23_EndOfSourceIsSuccess ==
    \A n \in StreamSends :
        EndedWithoutSentinel(n) =>
            /\ sends[n].outcome = "ok"
            /\ sends[n].delivered = PayloadsBefore(FramesOf(n), Len(FramesOf(n)) + 1)
            /\ \A i \in 1..Len(messages) :
                  messages[i].id = sends[n].aid => ~IsErrorMarker(messages[i].text)
            /\ ~loading

\* the body "data: x", blank line, "data: x" has ended: the first payload
\* was delivered, the text behind it was not, and the send succeeded
C23_Witness ==
    \E n \in StreamSends, i \in 1..Len(messages) :
        /\ EndedWithoutSentinel(n)
        /\ sends[n].content = DataX \o Separator \o DataX
        /\ sends[n].delivered = << <<"x">> >>
        /\ sends[n].buffer = DataX
        /\ messages[i].id = sends[n].aid
        /\ messages[i].text = <<"x">>
        /\ ~loading

----------------------------------------------------------------------------
(* The text of a frame: C24 *)

\* the complete frames of a text as they were written: the texts that end at
\* a blank line, blanks kept
RECURSIVE WrittenFrames(_)
WrittenFrames(text) ==
    LET idx == IndexOfBlankLine(text)
    IN  IF idx = 0 THEN <<>>
        ELSE <<SubSeq(text, 1, idx - 1)>> \o WrittenFrames(SubSeq(text, idx + 2, Len(text)))

\* what the claim has delivered for a frame: the text behind the marker (past
\* the blank that follows the marker), or the text of the frame as written
AsWritten(frame) ==
    IF HasMarker(frame) THEN Trim(SubSeq(frame, Len(DataMarker) + 1, Len(frame))) ELSE frame

\* C24: for the complete frames that have arrived, none of them empty or a
\* sentinel, onChunk was called once for each, in order: with the text behind
\* the marker if the frame starts with the marker data:, and with the text of
\* the frame as written, character for character, if it does not.
C24_UnmarkedDeliveredVerbatim ==
    \A n \in StreamSends :
        sends[n].pc = "stream" \/ sends[n].outcome = "ok" =>
            LET frames == WrittenFrames(Utf8Decode(Arrived(n)).chars)
            IN  sends[n].delivered = [i \in 1..Len(frames) |-> AsWritten(frames[i])]

----------------------------------------------------------------------------
(* The hydration indicator: C25 *)

HistPending == hist.pc \in {"fetch", "text"}

\* the history fetch settles in this step
HistSettling == HistPending /\ hist'.pc \in {"done", "failed"}

\* the records the settling fetch got: none if it failed, if the answer was
\* not a success or if its body could not be read
RecordsGot ==
    IF hist'.pc = "done" /\ ~handleJsonResponse(hist.res).threw /\ hist.res.body.kind = "json"
    THEN hist.res.body.queries
    ELSE <<>>

\* C25: the hydration indicator is set when the hydration starts and while
\* the history fetch is pending, and it is cleared in the step in which the
\* fetch settles, by an answer or by a failure; in that step a failed fetch,
\* an answer that is not a success and an empty history leave the message
\* list as it was, and a history that is not empty puts the reconciled
\* messages in place of the list.
C25_HydrationIndicator ==
    /\ [](mounted => (hydrating <=> HistPending))
    /\ [][ChatMount => hydrating' /\ hist'.pc = "fetch"]_vars
    /\ [][HistSettling =>
             /\ ~hydrating'
             /\ IF RecordsGot = <<>> THEN messages' = messages
                ELSE \E now \in Clock : messages' = Reconcile(RecordsGot, now)]_vars

\* the history fetch has failed after a send was accepted: the indicator is
\* cleared and the two messages of the send are in the list
C25_Witness ==
    /\ hist.pc = "failed"
    /\ ~hydrating
    /\ Len(sends) = 1
    /\ Len(messages) = 2
    /\ messages[2].id = sends[1].aid

----------------------------------------------------------------------------
(* The message of a failed JSON call: C26 *)

\* the message the claim gives the failure of a JSON call answered by res
ClaimedMessage(res) ==
    IF res.body.kind # "json" THEN StatusText(res.status)
    ELSE IF Truthy(res.body.detail) THEN res.body.detail
    ELSE IF Truthy(res.body.message) THEN res.body.message
    ELSE StatusText(res.status)

\* C26: when the query call of a send fails on its answer, the failure raised
\* to send() (which the error marker shows) has for its message the HTTP
\* status text if the body is not JSON or is malformed, and for a JSON body
\* with a status that is not a success the detail of the body, else its
\* message field, else the HTTP status text.
C26_ParseErrorGivesStatusText ==
    [][\A n \in SendIds :
          QueryBody(n) /\ Failing(n) =>
              \A i \in 1..Len(messages') :
                  messages'[i].id = sends[n].aid =>
                      messages'[i].text = ErrorMarker(ClaimedMessage(sends[n].res))]_vars

----------------------------------------------------------------------------
(* A streaming answer that cannot be read: C27 *)

\* the answer of the streaming endpoint reaches send n in this step
Answered(n) == sends[n].mode = "stream" /\ sends[n].pc = "fetch" /\ sends'[n].res # NoRes

Unreadable(res) == ~ResOk(res) \/ res.body.kind # "stream"

\* C27: in the step in which the streaming endpoint's answer arrives with a
\* status that is not a success or without a readable body, the send fails:
\* the message with the placeholder's id gets the error marker of
\* "Streaming failed", the busy flag is released, onChunk was not called and
\* is never called, and no chunk is read.
C27_UnreadableStreamAborts ==
    /\ [][\A n \in SendIds :
             Answered(n) /\ Unreadable(sends'[n].res) =>
                 /\ Failing(n)
                 /\ ~loading'
                 /\ \A i \in 1..Len(messages') :
                       messages'[i].id = sends[n].aid =>
                           messages'[i].text = ErrorMarker(StreamFailed(sends'[n].res.status))]_vars
    /\ [](\A n \in StreamSends :
             sends[n].res # NoRes /\ Unreadable(sends[n].res) =>
                 sends[n].pc = "done" /\ sends[n].delivered = <<>> /\ sends[n].pos = 0)

\* the streaming endpoint answered 200 without a body: the send has failed
\* with no payload delivered
C27_Witness ==
    \E n \in StreamSends, i \in 1..Len(messages) :
        /\ sends[n].res.status = 200
        /\ sends[n].res.body.kind = "nobody"
        /\ sends[n].outcome = "error"
        /\ sends[n].delivered = <<>>
        /\ messages[i].id = sends[n].aid
        /\ messages[i].text = ErrorMarker("Streaming failed: 200 OK")
        /\ ~loading

----------------------------------------------------------------------------
(* Hydration and a live exchange: C28 *)

\* the ids of the two messages of send n: the ids send() drew for it
ExchangeIds(n) == {UserMsg(n, <<>>).id, AssistantMsg(n).id}

\* C28: the step in which the hydration completes loses no message of a send
\* that was accepted while the history fetch was in flight: the user message
\* and the placeholder of the send that are in the list before the step are
\* in the list after it, the placeholder with the payloads applied to it.
C28_HydrationKeepsLiveExchange ==
    [][HistSettling =>
          \A n \in SendIds :
              \A i \in 1..Len(messages) :
                  messages[i].id \in ExchangeIds(n) =>
                      \E j \in 1..Len(messages') : messages'[j] = messages[i]]_vars

----------------------------------------------------------------------------
(* The token in memory and the TokenStore: C29 *)

\* C29: with usable storage, in every state the token the session holds in
\* memory is the token TokenStore.get() gives, whatever login, signup, logout
\* and answers of 401 came before, a login answered by a success without a
\* token among them.
C29_MemoryMirrorsStore ==
    storageOk => tok = getToken(storageOk, stored).val

----------------------------------------------------------------------------
(* Clear during a send: C30 *)

\* clear() empties the list and touches neither the busy flag nor the sends;
\* a send that settles releases the busy flag
ClearKeepsBusy ==
    /\ [][Clear => messages' = <<>> /\ loading' = loading /\ sends' = sends]_vars
    /\ [][\A n \in SendIds : Settling(n) => ~loading']_vars

\* the list is empty while a send is in flight: it was cleared since the send
\* was accepted
ClearedInFlight == InFlight # {} /\ messages = <<>>

\* C30 as claimed: clear() during a send empties the list and keeps the busy
\* flag; from then on the list stays empty as long as the send is in flight
\* and when it settles, by success or by failure, whatever step is taken;
\* the busy flag is released when the send settles.
C30_ClearedListStaysEmpty ==
    /\ ClearKeepsBusy
    /\ [][ClearedInFlight => messages' = <<>>]_vars

\* C30, amended: clear() during a send empties the list and keeps the busy
\* flag; the chunks read afterwards and the settle step of the send, by
\* success or by failure, add no message back; while the send is in flight
\* the list stays empty unless the hydration completes with a history that
\* is not empty, which puts the hydrated messages in the list, and an empty
\* list gets messages by no other step than that and an accepted send; the
\* busy flag is released when the send settles.
C30_OnlyHydrationRefillsClearedList ==
    /\ ClearKeepsBusy
    /\ [][ClearedInFlight /\ messages' # <<>> => HistSettling /\ RecordsGot # <<>>]_vars
    /\ [][messages = <<>> /\ messages' # <<>> =>
             Accepted \/ (HistSettling /\ RecordsGot # <<>>)]_vars
    /\ [][ClearedInFlight /\ (\E n \in SendIds : Settling(n) \/ Applying(n)) => messages' = <<>>]_vars

\* the list was cleared during a streaming send: a payload was decoded, the
\* list is empty and the busy flag is set
C30_Witness ==
    \E n \in InFlight :
        /\ sends[n].pc = "stream"
        /\ sends[n].delivered # <<>>
        /\ messages = <<>>
        /\ loading


====
